---- MODULE Spec2Model ----
(***************************************************************************)
(* Model of the TIP5 jets of crates/zkvm-jetpack/src/jets/tip5_jets.rs:    *)
(* permutation_jet and hash_10_jet, their noun decoders and encoder, and   *)
(* the Montgomery helpers.                                                 *)
(*                                                                         *)
(* Numbers.  A u64 is a tuple of four 16-bit limbs, least significant      *)
(* first, so that 64-bit values (0xffffffffffffffff) and the prime         *)
(* 4294967291 are exact.  An atom is an arbitrary-precision natural: a     *)
(* limb tuple of any length without high zero limbs.  A noun is either     *)
(* [atom |-> limbs] or [head |-> noun, tail |-> noun].                     *)
(***************************************************************************)
EXTENDS Integers, Sequences, FiniteSets, TLC

VARIABLES
    pc,               \* position of the running jet call, "idle" between calls
    jet,              \* which jet is running
    subject,          \* the caller's noun
    args,             \* how the caller built the subject (recorded, never read)
    sample,           \* slot(subject, 6)
    input,            \* hash_10_jet: the decoded words
    montified_input,  \* hash_10_jet: the converted words
    sponge,           \* the 16-word state
    output,           \* hash_10_jet: the digest words
    result,           \* what the call returns
    reads,            \* chain cells read by the decoder in this call
    nMontify,         \* calls of montify in this call
    nPermute,         \* calls of permute in this call
    nAlloc,           \* cells allocated on the stack in this call
    lastFail,         \* defect and error value of the latest failed call
    peer              \* the frame of a second call, suspended while this one runs

vars == <<pc, jet, subject, args, sample, input, montified_input, sponge,
          output, result, reads, nMontify, nPermute, nAlloc, lastFail, peer>>

locals == <<sample, input, montified_input, sponge, output>>

counters == <<reads, nMontify, nPermute, nAlloc>>

-----------------------------------------------------------------------------
(* Bounds of the exploration *)

\* longest chain of elements offered as a sample
MaxLen == 18

-----------------------------------------------------------------------------
(* Program constants *)

STATE_SIZE == 16

RATE == 10

DIGEST_LENGTH == 5

\* 4294967291 = 65535 * 2^16 + 65531
TIP5_PRIME == <<65531, 65535, 0, 0>>

-----------------------------------------------------------------------------
(* u64 words *)

U64(n) == <<n, 0, 0, 0>>

MaxU64 == <<65535, 65535, 65535, 65535>>

\* a >= b on u64 words
WordGE(a, b) ==
    IF a[4] # b[4] THEN a[4] > b[4]
    ELSE IF a[3] # b[3] THEN a[3] > b[3]
    ELSE IF a[2] # b[2] THEN a[2] > b[2]
    ELSE a[1] >= b[1]

\* x % TIP5_PRIME on a u64, using 2^32 = 5 (mod 2^32 - 5)
ModPrime(x) ==
    LET s0   == 5 * x[3] + x[1]
        s1   == 5 * x[4] + x[2] + (s0 \div 65536)
        top  == s1 \div 65536
        t0   == (s0 % 65536) + 5 * top
        t1   == (s1 % 65536) + (t0 \div 65536)
        u0   == t0 % 65536
        u1   == t1 % 65536
    IN  IF t1 \div 65536 = 1 THEN <<u0 + 5, 0, 0, 0>>
        ELSE IF u1 = 65535 /\ u0 >= 65531 THEN <<u0 - 65531, 0, 0, 0>>
        ELSE <<u0, u1, 0, 0>>

\* a + b mod P for a, b < 2^32
AddPrime(a, b) ==
    LET s0 == a[1] + b[1]
        s1 == a[2] + b[2] + (s0 \div 65536)
    IN  ModPrime(<<s0 % 65536, s1 % 65536, s1 \div 65536, 0>>)

\* a * b mod P for a, b < 2^32, by 8-bit schoolbook multiplication
MulPrime(a, b) ==
    LET x  == <<a[1] % 256, a[1] \div 256, a[2] % 256, a[2] \div 256>>
        y  == <<b[1] % 256, b[1] \div 256, b[2] % 256, b[2] \div 256>>
        c0 == x[1]*y[1]
        c1 == x[1]*y[2] + x[2]*y[1]
        c2 == x[1]*y[3] + x[2]*y[2] + x[3]*y[1]
        c3 == x[1]*y[4] + x[2]*y[3] + x[3]*y[2] + x[4]*y[1]
        c4 == x[2]*y[4] + x[3]*y[3] + x[4]*y[2]
        c5 == x[3]*y[4] + x[4]*y[3]
        c6 == x[4]*y[4]
        v1 == c1 + (c0 \div 256)
        v2 == c2 + (v1 \div 256)
        v3 == c3 + (v2 \div 256)
        v4 == c4 + (v3 \div 256)
        v5 == c5 + (v4 \div 256)
        v6 == c6 + (v5 \div 256)
    IN  ModPrime(<<(c0 % 256) + 256 * (v1 % 256),
                   (v2 % 256) + 256 * (v3 % 256),
                   (v4 % 256) + 256 * (v5 % 256),
                   (v6 % 256) + 256 * (v6 \div 256)>>)

\* montify as a radix conversion (x * 2^32 mod P) while mont_reduction stays
\* a plain reduction
montify_radix(x) == MulPrime(ModPrime(x), U64(5))

montify(x) == ModPrime(x)

mont_reduction(x) == ModPrime(x)

-----------------------------------------------------------------------------
(* Nouns *)

D(n) == [atom |-> IF n = 0 THEN <<>> ELSE <<n>>]

T(h, t) == [head |-> h, tail |-> t]

is_atom(n) == DOMAIN n = {"atom"}

is_cell(n) == DOMAIN n = {"head", "tail"}

RECURSIVE StripHigh(_)
StripHigh(l) ==
    IF l = <<>> THEN l
    ELSE IF l[Len(l)] = 0 THEN StripHigh(SubSeq(l, 1, Len(l) - 1))
    ELSE l

\* Atom::new(stack, u64).as_noun()
AtomNew(w) == [atom |-> StripHigh(w)]

\* results of fallible calls
Ok(v) == [kind |-> "Ok", val |-> v]

Err(e) == [kind |-> "Err", val |-> e]

Panic(m) == [kind |-> "Panic", val |-> m]

jet_err == Err("jet_err")

\* Atom::as_u64: fails when the atom does not fit in 64 bits
as_u64(a) ==
    IF Len(a.atom) > 4 THEN Err("as_u64")
    ELSE Ok([k \in 1..4 |-> IF k <= Len(a.atom) THEN a.atom[k] ELSE 0])

as_atom(n) == IF is_atom(n) THEN Ok(n) ELSE Err("as_atom")

as_cell(n) == IF is_cell(n) THEN Ok(n) ELSE Err("as_cell")

\* slot(subject, 6): the head of the tail
slot6(n) ==
    IF is_atom(n) THEN Err("slot")
    ELSE IF is_atom(n.tail) THEN Err("slot")
    ELSE Ok(n.tail.head)

-----------------------------------------------------------------------------
(* Decoders and encoder *)

\* result of a decoder: the Result plus the number of chain cells it read
Dec(r, n) == [kind |-> r.kind, val |-> r.val, reads |-> n]

\* sponge_loop filling the array from its far end
RECURSIVE sponge_loop_backwards(_, _, _)
sponge_loop_backwards(current, sp, i) ==
    IF is_cell(current)
    THEN LET a == as_atom(current.head)
             v == as_u64(a.val)
         IN  IF a.kind = "Err" THEN Dec(a, i + 1)
             ELSE IF v.kind = "Err" THEN Dec(v, i + 1)
             ELSE IF i >= STATE_SIZE
                  THEN Dec(Panic("index out of bounds"), i + 1)
             ELSE sponge_loop_backwards(current.tail,
                                        [sp EXCEPT ![STATE_SIZE - i] = v.val],
                                        i + 1)
    ELSE IF i # STATE_SIZE THEN Dec(jet_err, i)
    ELSE Dec(Ok(sp), i)

\* the while loop of hoon_list_to_sponge and the arity check after it;
\* i counts the elements stored so far.  The right-hand side of
\* sponge[i] = ... is evaluated (and may return early) before the index
\* is bounds-checked.
RECURSIVE sponge_loop(_, _, _)
sponge_loop(current, sp, i) ==
    IF is_cell(current)
    THEN LET a == as_atom(current.head)
             v == as_u64(a.val)
         IN  IF a.kind = "Err" THEN Dec(a, i + 1)
             ELSE IF v.kind = "Err" THEN Dec(v, i + 1)
             ELSE IF i >= STATE_SIZE
                  THEN Dec(Panic("index out of bounds"), i + 1)
             ELSE sponge_loop(current.tail, [sp EXCEPT ![i + 1] = v.val], i + 1)
    ELSE IF i # STATE_SIZE THEN Dec(jet_err, i)
    ELSE Dec(Ok(sp), i)

hoon_list_to_sponge(list) ==
    IF is_atom(list) THEN Dec(jet_err, 0)
    ELSE sponge_loop(list, [k \in 1..STATE_SIZE |-> U64(0)], 0)

\* hash10_loop checking the count but not the terminator
RECURSIVE hash10_loop_any_tail(_, _, _)
hash10_loop_any_tail(current, inp, i) ==
    IF is_cell(current) /\ i < RATE
    THEN LET a == as_atom(current.head)
             v == as_u64(a.val)
         IN  IF a.kind = "Err" THEN Dec(a, i + 1)
             ELSE IF v.kind = "Err" THEN Dec(v, i + 1)
             ELSE hash10_loop_any_tail(current.tail,
                                       [inp EXCEPT ![i + 1] = v.val], i + 1)
    ELSE IF i # RATE THEN Dec(jet_err, i)
    ELSE Dec(Ok(inp), i)

\* the while loop of hoon_list_to_hash10_input and the check after it
RECURSIVE hash10_loop(_, _, _)
hash10_loop(current, inp, i) ==
    IF is_cell(current) /\ i < RATE
    THEN LET a == as_atom(current.head)
             v == as_u64(a.val)
         IN  IF a.kind = "Err" THEN Dec(a, i + 1)
             ELSE IF v.kind = "Err" THEN Dec(v, i + 1)
             ELSE hash10_loop(current.tail, [inp EXCEPT ![i + 1] = v.val], i + 1)
    ELSE IF i # RATE \/ ~is_atom(current) THEN Dec(jet_err, i)
    ELSE LET z == as_u64(current)
         IN  IF z.kind = "Err" THEN Dec(z, i)
             ELSE IF z.val # U64(0) THEN Dec(jet_err, i)
             ELSE Dec(Ok(inp), i)

hoon_list_to_hash10_input(list) ==
    IF is_atom(list) THEN Dec(jet_err, 0)
    ELSE hash10_loop(list, [k \in 1..RATE |-> U64(0)], 0)

\* vec_to_hoon_list leaving the first element of vec out
RECURSIVE vec_loop_short(_, _, _)
vec_loop_short(vec, k, list) ==
    IF k <= 1 THEN list
    ELSE vec_loop_short(vec, k - 1, T(AtomNew(vec[k]), list))

\* for e in vec.iter().rev(): list = [Atom::new(e) list]
RECURSIVE vec_loop(_, _, _)
vec_loop(vec, k, list) ==
    IF k = 0 THEN list
    ELSE vec_loop(vec, k - 1, T(AtomNew(vec[k]), list))

\* vec_to_hoon_list iterating without .rev()
RECURSIVE vec_loop_forward(_, _, _)
vec_loop_forward(vec, k, list) ==
    IF k > Len(vec) THEN list
    ELSE vec_loop_forward(vec, k + 1, T(AtomNew(vec[k]), list))

vec_to_hoon_list_forward(vec) == vec_loop_forward(vec, 1, D(0))

vec_to_hoon_list(vec) == vec_loop(vec, Len(vec), D(0))

\* init_tip5_state_fixed leaving the capacity at zero
init_tip5_state_zero == [k \in 1..STATE_SIZE |-> U64(0)]

\* the capacity words are montify(1), the rate words 0
init_tip5_state_fixed ==
    [k \in 1..STATE_SIZE |-> IF k > RATE THEN montify(U64(1)) ELSE U64(0)]

\* the loop of the jet tests that reads a result list back into words
RECURSIVE read_back(_, _, _)
read_back(current, acc, max) ==
    IF is_cell(current) /\ Len(acc) < max
    THEN read_back(current.tail, Append(acc, as_u64(current.head).val), max)
    ELSE acc

-----------------------------------------------------------------------------
(* The permutation.  Its code (crate::form::math::tip5) is not among the   *)
(* sources; it is modelled from the specification: a fixed number of       *)
(* rounds, each an S-box applied to every word followed by a linear layer  *)
(* that mixes all 16 words, over the field of TIP5_PRIME elements.  The    *)
(* specification fixes neither the matrix nor the round constants; the     *)
(* model takes the cube as S-box (a bijection, 3 does not divide P - 1),   *)
(* the matrix I + J as linear layer and 16 * round + index as constants.   *)

NUM_ROUNDS == 5

\* the square as S-box: not invertible, x and P - x have the same square
sbox_square(x) == LET r == ModPrime(x) IN MulPrime(r, r)

sbox(x) == LET r == ModPrime(x) IN MulPrime(r, MulPrime(r, r))

\* the layers are written out word by word: the state has STATE_SIZE = 16 words
sbox_layer(st) ==
    << sbox(st[1]), sbox(st[2]), sbox(st[3]), sbox(st[4]),
       sbox(st[5]), sbox(st[6]), sbox(st[7]), sbox(st[8]),
       sbox(st[9]), sbox(st[10]), sbox(st[11]), sbox(st[12]),
       sbox(st[13]), sbox(st[14]), sbox(st[15]), sbox(st[16]) >>

\* the sum of limb j over the 16 words
SumLimbs(st, j) ==
    st[1][j] + st[2][j] + st[3][j] + st[4][j] + st[5][j] + st[6][j] + st[7][j] + st[8][j]
    + st[9][j] + st[10][j] + st[11][j] + st[12][j] + st[13][j] + st[14][j] + st[15][j] + st[16][j]

\* the sum of the 16 words (each < 2^32) mod P
SumPrime(st) ==
    LET s0 == SumLimbs(st, 1)
        s1 == SumLimbs(st, 2) + (s0 \div 65536)
    IN  ModPrime(<<s0 % 65536, s1 % 65536, s1 \div 65536, 0>>)

add_each(st, w) ==
    << AddPrime(st[1], w), AddPrime(st[2], w), AddPrime(st[3], w), AddPrime(st[4], w),
       AddPrime(st[5], w), AddPrime(st[6], w), AddPrime(st[7], w), AddPrime(st[8], w),
       AddPrime(st[9], w), AddPrime(st[10], w), AddPrime(st[11], w), AddPrime(st[12], w),
       AddPrime(st[13], w), AddPrime(st[14], w), AddPrime(st[15], w), AddPrime(st[16], w) >>

linear_layer(st) == add_each(st, SumPrime(st))

add_constants(st, r) ==
    << AddPrime(st[1], U64(16 * r + 1)), AddPrime(st[2], U64(16 * r + 2)), AddPrime(st[3], U64(16 * r + 3)), AddPrime(st[4], U64(16 * r + 4)),
       AddPrime(st[5], U64(16 * r + 5)), AddPrime(st[6], U64(16 * r + 6)), AddPrime(st[7], U64(16 * r + 7)), AddPrime(st[8], U64(16 * r + 8)),
       AddPrime(st[9], U64(16 * r + 9)), AddPrime(st[10], U64(16 * r + 10)), AddPrime(st[11], U64(16 * r + 11)), AddPrime(st[12], U64(16 * r + 12)),
       AddPrime(st[13], U64(16 * r + 13)), AddPrime(st[14], U64(16 * r + 14)), AddPrime(st[15], U64(16 * r + 15)), AddPrime(st[16], U64(16 * r + 16)) >>

\* one round; each layer is computed from the finished result of the one before
round(st, r) ==
    CHOOSE out \in { add_constants(ml, r) :
                        ml \in { linear_layer(sb) : sb \in {sbox_layer(st)} } } : TRUE

RECURSIVE rounds(_, _)
rounds(s0, n) ==
    IF n = 0 THEN s0
    ELSE CHOOSE out \in { round(prev, n) : prev \in {rounds(s0, n - 1)} } : TRUE

permute(st) == rounds(st, NUM_ROUNDS)

-----------------------------------------------------------------------------
(* The subjects offered to the jets.  args records how a subject was built *)
(* (never read by the jets): the shape of the subject, the elements of the *)
(* chain at the sample position and the chain's terminator.                *)

Word(w) == [k |-> "word", w |-> w]

\* the atom 2^64, one bit too wide for a u64
Big == [k |-> "big", w |-> <<0, 0, 0, 0, 1>>]

Pair == [k |-> "cell", w |-> <<>>]

PrimeMinus(n) == <<65531 - n, 65535, 0, 0>>

ElemNoun(d) ==
    CASE d.k = "word" -> AtomNew(d.w)
      [] d.k = "big"  -> [atom |-> d.w]
      [] d.k = "cell" -> T(D(1), D(2))

\* the construction loop of the tests: the list grows from its last element
RECURSIVE build_list(_, _, _)
build_list(elems, k, list) ==
    IF k = 0 THEN list
    ELSE build_list(elems, k - 1, T(ElemNoun(elems[k]), list))

SampleOf(a) == build_list(a.elems, Len(a.elems), ElemNoun(a.term))

\* "gate" and "gate2" carry the sample at axis 6 and differ elsewhere;
\* "test" is the pair [0 list] the unit tests build; "atom" and "flat"
\* have no axis 6
Shapes == {"gate", "gate2", "test", "atom", "flat"}

SubjectOf(a) ==
    CASE a.shape = "gate"  -> T(D(0), T(SampleOf(a), D(0)))
      [] a.shape = "gate2" -> T(T(D(1), D(1)), T(SampleOf(a), T(D(7), D(8))))
      [] a.shape = "test"  -> T(D(0), SampleOf(a))
      [] a.shape = "atom"  -> D(0)
      [] a.shape = "flat"  -> T(SampleOf(a), D(0))

Patterns == {"index", "zero", "max", "field"}

PatternWord(p, i) ==
    CASE p = "index" -> U64(i)
      [] p = "zero"  -> U64(0)
      [] p = "max"   -> MaxU64
      [] p = "field" -> PrimeMinus(i)

\* P - 1, P, 2^64 - 1, 2^64 and a pair
Specials == {Word(PrimeMinus(1)), Word(TIP5_PRIME), Word(MaxU64), Big, Pair}

Terms == {Word(U64(1)), Big, Pair}

Plain(p, n) == [i \in 1..n |-> Word(PatternWord(p, i))]

Inputs ==
    \* every shape of subject around a well-formed list of 10 or 16 words
    { [shape |-> sh, elems |-> Plain("index", n), term |-> Word(U64(0))] :
        sh \in Shapes, n \in {RATE, STATE_SIZE} }
    \* chains of every length, zero-terminated
    \cup { [shape |-> "gate", elems |-> Plain(p, n), term |-> Word(U64(0))] :
        p \in Patterns, n \in 0..MaxLen }
    \* one special element at any position
    \cup { [shape |-> "gate",
            elems |-> [Plain("index", c[3]) EXCEPT ![c[2]] = c[1]],
            term |-> Word(U64(0))] :
        c \in { q \in Specials \X (1..MaxLen) \X (1..MaxLen) : q[2] <= q[3] } }
    \* a terminator that is not the atom 0
    \cup { [shape |-> "gate", elems |-> Plain("index", n), term |-> t] :
        t \in Terms, n \in 0..MaxLen }

Jets == {"permutation", "hash10"}

\* the kind of defect of an input, by the error taxonomy; "Mixed" when the
\* input has several defects or one outside the taxonomy
Cause(j, a) ==
    LET arity    == IF j = "hash10" THEN RATE ELSE STATE_SIZE
        badShape == \/ a.shape \in {"atom", "flat"}
                    \/ \E i \in 1..Len(a.elems) : a.elems[i].k = "cell"
        badArity == Len(a.elems) # arity
        badRange == /\ j = "hash10"
                    /\ \E i \in 1..Len(a.elems) :
                         /\ a.elems[i].k = "word"
                         /\ WordGE(a.elems[i].w, TIP5_PRIME)
        other    == \/ a.shape = "test"
                    \/ \E i \in 1..Len(a.elems) : a.elems[i].k = "big"
                    \/ a.term # Word(U64(0))
        count    == (IF badShape THEN 1 ELSE 0) + (IF badArity THEN 1 ELSE 0)
                    + (IF badRange THEN 1 ELSE 0) + (IF other THEN 1 ELSE 0)
    IN  IF count = 0 THEN "None"
        ELSE IF count > 1 \/ other THEN "Mixed"
        ELSE IF badShape THEN "ShapeMismatch"
        ELSE IF badArity THEN "ArityMismatch"
        ELSE "OutOfRange"

-----------------------------------------------------------------------------
(* The calls *)

NoResult == [kind |-> "None", val |-> "none"]

NoArgs == [shape |-> "atom", elems |-> <<>>, term |-> Word(U64(0))]

\* the variables of a call that has not started
IdleFrame ==
    [pc |-> "idle", jet |-> "none", subject |-> D(0), args |-> NoArgs,
     sample |-> D(0), input |-> <<>>, montified_input |-> <<>>,
     sponge |-> <<>>, output |-> <<>>, result |-> NoResult, reads |-> 0,
     nMontify |-> 0, nPermute |-> 0, nAlloc |-> 0]

Init ==
    /\ pc = "idle"
    /\ jet = "none"
    /\ subject = D(0)
    /\ args = NoArgs
    /\ sample = D(0)
    /\ input = <<>>
    /\ montified_input = <<>>
    /\ sponge = <<>>
    /\ output = <<>>
    /\ result = NoResult
    /\ reads = 0
    /\ nMontify = 0
    /\ nPermute = 0
    /\ nAlloc = 0
    /\ lastFail = [cause |-> "None", val |-> "none"]
    /\ peer = IdleFrame

\* the caller builds a subject and calls a jet
Call(j, a) ==
    /\ pc = "idle"
    /\ pc' = "slot"
    /\ jet' = j
    /\ args' = a
    /\ subject' = SubjectOf(a)
    /\ UNCHANGED <<locals, result, counters, lastFail, peer>>

\* the ? operator on a failed Result: the function returns the error
Return(r) ==
    /\ result' = [kind |-> r.kind, val |-> r.val]
    /\ pc' = IF r.kind = "Panic" THEN "aborted" ELSE "done"

\* the sample taken at axis 3, the whole tail of the subject
Slot_axis3(next) ==
    IF is_cell(subject)
    THEN sample' = subject.tail /\ pc' = next /\ UNCHANGED result
    ELSE Return(Err("slot")) /\ UNCHANGED sample

\* let sample = slot(subject, 6)?
Slot(next) ==
    LET r == slot6(subject)
    IN  IF r.kind = "Ok"
        THEN sample' = r.val /\ pc' = next /\ UNCHANGED result
        ELSE Return(r) /\ UNCHANGED sample

(* permutation_jet *)

PermSlot ==
    /\ pc = "slot" /\ jet = "permutation"
    /\ Slot("decode")
    /\ UNCHANGED <<jet, subject, args, input, montified_input, sponge, output,
                   counters, lastFail, peer>>

\* permutation_jet reducing the decoded words mod P before permute
PermDecode_reducing ==
    /\ pc = "decode" /\ jet = "permutation"
    /\ LET r == hoon_list_to_sponge(sample)
       IN  /\ reads' = r.reads
           /\ IF r.kind = "Ok"
              THEN /\ sponge' = [k \in 1..STATE_SIZE |-> ModPrime(r.val[k])]
                   /\ pc' = "permute"
                   /\ UNCHANGED result
              ELSE Return(r) /\ UNCHANGED sponge
    /\ UNCHANGED <<jet, subject, args, sample, input, montified_input, output,
                   nMontify, nPermute, nAlloc, lastFail, peer>>

PermDecode ==
    /\ pc = "decode" /\ jet = "permutation"
    /\ LET r == hoon_list_to_sponge(sample)
       IN  /\ reads' = r.reads
           /\ IF r.kind = "Ok"
              THEN sponge' = r.val /\ pc' = "permute" /\ UNCHANGED result
              ELSE Return(r) /\ UNCHANGED sponge
    /\ UNCHANGED <<jet, subject, args, sample, input, montified_input, output,
                   nMontify, nPermute, nAlloc, lastFail, peer>>

PermPermute ==
    /\ pc = "permute" /\ jet = "permutation"
    /\ sponge' = permute(sponge)
    /\ nPermute' = nPermute + 1
    /\ pc' = "encode"
    /\ UNCHANGED <<jet, subject, args, sample, input, montified_input, output,
                   result, reads, nMontify, nAlloc, lastFail, peer>>

\* permutation_jet handing the caller's own list back as its result
PermEncode_callers_list ==
    /\ pc = "encode" /\ jet = "permutation"
    /\ Return(Ok(sample))
    /\ UNCHANGED <<jet, subject, args, locals, counters, lastFail, peer>>

PermEncode ==
    /\ pc = "encode" /\ jet = "permutation"
    /\ nAlloc' = nAlloc + Len(sponge)
    /\ Return(Ok(vec_to_hoon_list(sponge)))
    /\ UNCHANGED <<jet, subject, args, locals, reads, nMontify, nPermute,
                   lastFail, peer>>

(* hash_10_jet *)

HashSlot ==
    /\ pc = "slot" /\ jet = "hash10"
    /\ Slot("decode")
    /\ UNCHANGED <<jet, subject, args, input, montified_input, sponge, output,
                   counters, lastFail, peer>>

HashDecode ==
    /\ pc = "decode" /\ jet = "hash10"
    /\ LET r == hoon_list_to_hash10_input(sample)
       IN  /\ reads' = r.reads
           /\ IF r.kind = "Ok"
              THEN input' = r.val /\ pc' = "range" /\ UNCHANGED result
              ELSE Return(r) /\ UNCHANGED input
    /\ UNCHANGED <<jet, subject, args, sample, montified_input, sponge, output,
                   nMontify, nPermute, nAlloc, lastFail, peer>>

\* range_check with > in place of >=
range_check_gt(inp) ==
    IF \E i \in 1..Len(inp) : inp[i] # TIP5_PRIME /\ WordGE(inp[i], TIP5_PRIME)
    THEN jet_err
    ELSE Ok(inp)

\* for &val in input.iter() { if val >= TIP5_PRIME { return jet_err(); } }
range_check(inp) ==
    IF \E i \in 1..Len(inp) : WordGE(inp[i], TIP5_PRIME) THEN jet_err
    ELSE Ok(inp)

HashRange ==
    /\ pc = "range" /\ jet = "hash10"
    /\ LET r == range_check(input)
       IN  IF r.kind = "Ok"
           THEN pc' = "montify" /\ UNCHANGED result
           ELSE Return(r)
    /\ UNCHANGED <<jet, subject, args, locals, counters, lastFail, peer>>

HashMontify ==
    /\ pc = "montify" /\ jet = "hash10"
    /\ montified_input' = [i \in 1..RATE |-> montify(input[i])]
    /\ nMontify' = nMontify + RATE
    /\ pc' = "init"
    /\ UNCHANGED <<jet, subject, args, sample, input, sponge, output, result,
                   reads, nPermute, nAlloc, lastFail, peer>>

\* hash_10_jet building the initial state only when the sponge holds none:
\* the state a previous call left in place is welded over
HashInit_reuse ==
    /\ pc = "init" /\ jet = "hash10"
    /\ sponge' = IF sponge = <<>> THEN init_tip5_state_fixed ELSE sponge
    /\ nMontify' = nMontify + 1
    /\ pc' = "weld"
    /\ UNCHANGED <<jet, subject, args, sample, input, montified_input, output,
                   result, reads, nPermute, nAlloc, lastFail, peer>>

HashInit ==
    /\ pc = "init" /\ jet = "hash10"
    /\ sponge' = init_tip5_state_fixed
    /\ nMontify' = nMontify + 1
    /\ pc' = "weld"
    /\ UNCHANGED <<jet, subject, args, sample, input, montified_input, output,
                   result, reads, nPermute, nAlloc, lastFail, peer>>

\* the weld loop running over 0..RATE - 1: the last rate word is left as
\* init_tip5_state_fixed set it
weld_short(sp, mi) == [k \in 1..STATE_SIZE |-> IF k < RATE THEN mi[k] ELSE sp[k]]

\* for i in 0..RATE { sponge[i] = montified_input[i]; }
weld(sp, mi) == [k \in 1..STATE_SIZE |-> IF k <= RATE THEN mi[k] ELSE sp[k]]

\* hash_10_jet welding from a conversion buffer that the calls share: the
\* words another call has left there are the ones that reach the sponge
HashWeld_shared_buffer ==
    /\ pc = "weld" /\ jet = "hash10"
    /\ sponge' = weld(sponge, IF peer.montified_input # <<>>
                              THEN peer.montified_input
                              ELSE montified_input)
    /\ pc' = "permute"
    /\ UNCHANGED <<jet, subject, args, sample, input, montified_input, output,
                   result, counters, lastFail, peer>>

HashWeld ==
    /\ pc = "weld" /\ jet = "hash10"
    /\ sponge' = weld(sponge, montified_input)
    /\ pc' = "permute"
    /\ UNCHANGED <<jet, subject, args, sample, input, montified_input, output,
                   result, counters, lastFail, peer>>

HashPermute ==
    /\ pc = "permute" /\ jet = "hash10"
    /\ sponge' = permute(sponge)
    /\ nPermute' = nPermute + 1
    /\ pc' = "reduce"
    /\ UNCHANGED <<jet, subject, args, sample, input, montified_input, output,
                   result, reads, nMontify, nAlloc, lastFail, peer>>

\* hash_10_jet returning the first words of the sponge as permute left them
digest_unreduced(sp) == [i \in 1..DIGEST_LENGTH |-> sp[i]]

\* the first DIGEST_LENGTH words, each through mont_reduction
digest(sp) == [i \in 1..DIGEST_LENGTH |-> mont_reduction(sp[i])]

HashReduce ==
    /\ pc = "reduce" /\ jet = "hash10"
    /\ output' = digest(sponge)
    /\ pc' = "encode"
    /\ UNCHANGED <<jet, subject, args, sample, input, montified_input, sponge,
                   result, counters, lastFail, peer>>

HashEncode ==
    /\ pc = "encode" /\ jet = "hash10"
    /\ nAlloc' = nAlloc + Len(output)
    /\ Return(Ok(vec_to_hoon_list(output)))
    /\ UNCHANGED <<jet, subject, args, locals, reads, nMontify, nPermute,
                   lastFail, peer>>

\* the caller takes the result; the locals of the call are gone
Finish ==
    /\ pc = "done"
    /\ pc' = "idle"
    /\ jet' = "none"
    /\ subject' = D(0)
    /\ args' = NoArgs
    /\ sample' = D(0)
    /\ input' = <<>>
    /\ montified_input' = <<>>
    /\ sponge' = <<>>
    /\ output' = <<>>
    /\ result' = NoResult
    /\ reads' = 0
    /\ nMontify' = 0
    /\ nPermute' = 0
    /\ nAlloc' = 0

Done == Finish /\ UNCHANGED <<lastFail, peer>>

\* the same, the caller remembering the latest failure it was handed
DoneRecord ==
    /\ Finish
    /\ lastFail' = IF result.kind = "Err"
                   THEN [cause |-> Cause(jet, args), val |-> result.val]
                   ELSE lastFail
    /\ UNCHANGED peer

Steps ==
    \/ \E j \in Jets, a \in Inputs : Call(j, a)
    \/ PermSlot
    \/ PermDecode
    \/ PermPermute
    \/ PermEncode
    \/ HashSlot
    \/ HashDecode
    \/ HashRange
    \/ HashMontify
    \/ HashInit
    \/ HashWeld
    \/ HashPermute
    \/ HashReduce
    \/ HashEncode

Next == Steps \/ Done

Spec == Init /\ [][Next]_vars

NextHistory == Steps \/ DoneRecord

\* calls one after another, the caller keeping the latest failure
SpecHistory == Init /\ [][NextHistory]_vars

-----------------------------------------------------------------------------
(* The marshalling pair on its own: a native array is encoded with         *)
(* vec_to_hoon_list and the list decoded with the decoder of its length.   *)
(* output holds the array, sample the list, result the decoder's answer.   *)

WordSamples ==
    { U64(0), U64(1), U64(65535), <<0, 1, 0, 0>>, PrimeMinus(1), TIP5_PRIME,
      <<0, 0, 1, 0>>, <<0, 0, 0, 1>>, <<1, 0, 0, 32768>>, MaxU64 }

Arity(j) == IF j = "hash10" THEN RATE ELSE STATE_SIZE

PlainWords(p, n) == [i \in 1..n |-> PatternWord(p, i)]

Vectors(n) ==
    { PlainWords(p, n) : p \in Patterns }
    \cup { [PlainWords("index", n) EXCEPT ![c[2]] = c[1]] :
             c \in WordSamples \X (1..n) }

InitMarshal ==
    /\ pc = "m_start"
    /\ jet \in Jets
    /\ output \in Vectors(Arity(jet))
    /\ subject = D(0)
    /\ args = NoArgs
    /\ sample = D(0)
    /\ input = <<>>
    /\ montified_input = <<>>
    /\ sponge = <<>>
    /\ result = NoResult
    /\ reads = 0
    /\ nMontify = 0
    /\ nPermute = 0
    /\ nAlloc = 0
    /\ lastFail = [cause |-> "None", val |-> "none"]
    /\ peer = IdleFrame

MarshalEncode ==
    /\ pc = "m_start"
    /\ sample' = vec_to_hoon_list(output)
    /\ nAlloc' = nAlloc + Len(output)
    /\ pc' = "m_encoded"
    /\ UNCHANGED <<jet, subject, args, input, montified_input, sponge, output,
                   result, reads, nMontify, nPermute, lastFail, peer>>

MarshalDecode ==
    /\ pc = "m_encoded"
    /\ LET r == IF jet = "hash10" THEN hoon_list_to_hash10_input(sample)
                ELSE hoon_list_to_sponge(sample)
       IN  /\ result' = [kind |-> r.kind, val |-> r.val]
           /\ reads' = r.reads
    /\ pc' = "m_decoded"
    /\ UNCHANGED <<jet, subject, args, sample, input, montified_input, sponge,
                   output, nMontify, nPermute, nAlloc, lastFail, peer>>

NextMarshal == MarshalEncode \/ MarshalDecode

SpecMarshal == InitMarshal /\ [][NextMarshal]_vars

-----------------------------------------------------------------------------
(* The Montgomery helpers on their own: a field element goes through       *)
(* montify and the result through mont_reduction.  input holds the         *)
(* element, montified_input its conversion, output the conversion back.    *)

FieldLimbs == {0, 1, 255, 256, 32768, 65530, 65531, 65535}

\* elements of [0, P)
FieldSamples ==
    { w \in { <<a, b, 0, 0>> : a \in FieldLimbs, b \in FieldLimbs } :
        ~WordGE(w, TIP5_PRIME) }

InitField ==
    /\ pc = "f_start"
    /\ input \in { <<x>> : x \in FieldSamples }
    /\ jet = "none"
    /\ subject = D(0)
    /\ args = NoArgs
    /\ sample = D(0)
    /\ montified_input = <<>>
    /\ sponge = <<>>
    /\ output = <<>>
    /\ result = NoResult
    /\ reads = 0
    /\ nMontify = 0
    /\ nPermute = 0
    /\ nAlloc = 0
    /\ lastFail = [cause |-> "None", val |-> "none"]
    /\ peer = IdleFrame

FieldMontify ==
    /\ pc = "f_start"
    /\ montified_input' = <<montify(input[1])>>
    /\ nMontify' = nMontify + 1
    /\ pc' = "f_in"
    /\ UNCHANGED <<jet, subject, args, sample, input, sponge, output, result,
                   reads, nPermute, nAlloc, lastFail, peer>>

FieldReduce ==
    /\ pc = "f_in"
    /\ output' = <<mont_reduction(montified_input[1])>>
    /\ pc' = "f_out"
    /\ UNCHANGED <<jet, subject, args, sample, input, montified_input, sponge,
                   result, counters, lastFail, peer>>

NextField == FieldMontify \/ FieldReduce

SpecField == InitField /\ [][NextField]_vars

-----------------------------------------------------------------------------
(* The tail of hash_10_jet on its own, from the state permute leaves: the  *)
(* permutation's code is not among the sources, so the sixteen words it    *)
(* hands back are any u64 words, words of P and above included.            *)

DigestArgs ==
    [shape |-> "gate", elems |-> Plain("zero", RATE), term |-> Word(U64(0))]

InitDigest ==
    /\ pc = "reduce"
    /\ jet = "hash10"
    /\ args = DigestArgs
    /\ subject = SubjectOf(DigestArgs)
    /\ sample = SampleOf(DigestArgs)
    /\ input = PlainWords("zero", RATE)
    /\ montified_input = [i \in 1..RATE |-> montify(PlainWords("zero", RATE)[i])]
    /\ sponge \in Vectors(STATE_SIZE)
    /\ output = <<>>
    /\ result = NoResult
    /\ reads = RATE
    /\ nMontify = RATE
    /\ nPermute = 1
    /\ nAlloc = 0
    /\ lastFail = [cause |-> "None", val |-> "none"]
    /\ peer = IdleFrame

NextDigest == HashReduce \/ HashEncode

SpecDigest == InitDigest /\ [][NextDigest]_vars

-----------------------------------------------------------------------------
(* A call that has started runs on: the jets are straight-line code with   *)
(* bounded loops and wait for nothing, so the step that is enabled is      *)
(* eventually taken.  The caller is under no obligation to call again.     *)

CallPcs ==
    {"slot", "decode", "range", "montify", "init", "weld", "permute",
     "reduce", "encode"}

\* the call takes its next step: every step of a jet moves pc on, and only
\* a step of the jet moves it from where the call stands
Advance ==
    /\ pc \in CallPcs
    /\ pc' \in CallPcs \cup {"done", "aborted"}
    /\ pc' # pc

SpecLive == Init /\ [][Next]_vars /\ WF_pc(Advance)

-----------------------------------------------------------------------------
(* Two calls side by side.  Each call has its own locals and its own       *)
(* context: the variables above hold the frame of the call that is taking  *)
(* steps, peer the frame of the other one.  Switch hands the processor to  *)
(* the other call, at any point of either call, so the steps of the two    *)
(* interleave in every order.                                              *)

Frame ==
    [pc |-> pc, jet |-> jet, subject |-> subject, args |-> args,
     sample |-> sample, input |-> input,
     montified_input |-> montified_input, sponge |-> sponge,
     output |-> output, result |-> result, reads |-> reads,
     nMontify |-> nMontify, nPermute |-> nPermute, nAlloc |-> nAlloc]

Switch ==
    /\ peer' = Frame
    /\ pc' = peer.pc
    /\ jet' = peer.jet
    /\ subject' = peer.subject
    /\ args' = peer.args
    /\ sample' = peer.sample
    /\ input' = peer.input
    /\ montified_input' = peer.montified_input
    /\ sponge' = peer.sponge
    /\ output' = peer.output
    /\ result' = peer.result
    /\ reads' = peer.reads
    /\ nMontify' = peer.nMontify
    /\ nPermute' = peer.nPermute
    /\ nAlloc' = peer.nAlloc
    /\ UNCHANGED lastFail

\* lists of 10, 16 and 17 words, one of 10 with P in it, the same lists in
\* subjects of every other shape, and a subject whose sample is the atom 1
ParallelInputs ==
    { [shape |-> "gate", elems |-> Plain(p, n), term |-> Word(U64(0))] :
        p \in {"index", "field"}, n \in {RATE, STATE_SIZE, STATE_SIZE + 1} }
    \cup { [shape |-> "gate",
            elems |-> [Plain("index", RATE) EXCEPT ![3] = Word(TIP5_PRIME)],
            term |-> Word(U64(0))] }
    \cup { [shape |-> sh, elems |-> Plain("index", n), term |-> Word(U64(0))] :
        sh \in Shapes, n \in {RATE, STATE_SIZE} }
    \cup { [shape |-> "gate", elems |-> <<>>, term |-> Word(U64(1))] }

NextParallel ==
    \/ \E j \in Jets, a \in ParallelInputs : Call(j, a)
    \/ PermSlot
    \/ PermDecode
    \/ PermPermute
    \/ PermEncode
    \/ HashSlot
    \/ HashDecode
    \/ HashRange
    \/ HashMontify
    \/ HashInit
    \/ HashWeld
    \/ HashPermute
    \/ HashReduce
    \/ HashEncode
    \/ Switch

SpecParallel == Init /\ [][NextParallel]_vars

-----------------------------------------------------------------------------
(* permute on two states, as the test of different inputs runs it: each    *)
(* input is copied into a buffer of its own and the buffer permuted.       *)
(* input and sponge hold the first state and its buffer, peer.input and    *)
(* peer.sponge the second.                                                 *)

\* the four inputs of the test
TestStates ==
    { [i \in 1..STATE_SIZE |-> U64(0)], [i \in 1..STATE_SIZE |-> U64(1)],
      [i \in 1..STATE_SIZE |-> MaxU64], [i \in 1..STATE_SIZE |-> U64(i - 1)] }

\* the inputs of the test, the patterns, and states with one sampled word
\* in the first or in the last place
PermStates ==
    TestStates
    \cup { PlainWords(p, STATE_SIZE) : p \in Patterns }
    \cup { [PlainWords("index", STATE_SIZE) EXCEPT ![c[2]] = c[1]] :
             c \in WordSamples \X {1, STATE_SIZE} }

InitPermute ==
    /\ pc = "p_start"
    /\ jet = "none"
    /\ subject = D(0)
    /\ args = NoArgs
    /\ sample = D(0)
    /\ input \in PermStates
    /\ montified_input = <<>>
    /\ sponge = input
    /\ output = <<>>
    /\ result = NoResult
    /\ reads = 0
    /\ nMontify = 0
    /\ nPermute = 0
    /\ nAlloc = 0
    /\ lastFail = [cause |-> "None", val |-> "none"]
    /\ \E s2 \in PermStates :
         peer = [IdleFrame EXCEPT !.input = s2, !.sponge = s2]

PermuteFirst ==
    /\ pc = "p_start"
    /\ sponge' = permute(sponge)
    /\ nPermute' = nPermute + 1
    /\ pc' = "p_first"
    /\ UNCHANGED <<jet, subject, args, sample, input, montified_input, output,
                   result, reads, nMontify, nAlloc, lastFail, peer>>

PermuteSecond ==
    /\ pc = "p_first"
    /\ peer' = [peer EXCEPT !.sponge = permute(peer.sponge), !.nPermute = 1]
    /\ pc' = "p_second"
    /\ UNCHANGED <<jet, subject, args, locals, result, counters, lastFail>>

NextPermute == PermuteFirst \/ PermuteSecond

SpecPermute == InitPermute /\ [][NextPermute]_vars

-----------------------------------------------------------------------------
(* Calls one after another on one context whose memory is not cleared      *)
(* between them: when a call has returned, the words it left in its        *)
(* locals are still where the next call will have its own.                 *)

\* the caller takes the result; what the call wrote stays in memory
Release ==
    /\ pc = "done"
    /\ pc' = "idle"
    /\ jet' = "none"
    /\ subject' = D(0)
    /\ args' = NoArgs
    /\ result' = NoResult
    /\ reads' = 0
    /\ nMontify' = 0
    /\ nPermute' = 0
    /\ nAlloc' = 0
    /\ UNCHANGED <<locals, lastFail, peer>>

NextRepeat ==
    \/ \E j \in Jets, a \in ParallelInputs : Call(j, a)
    \/ PermSlot
    \/ PermDecode
    \/ PermPermute
    \/ PermEncode
    \/ HashSlot
    \/ HashDecode
    \/ HashRange
    \/ HashMontify
    \/ HashInit
    \/ HashWeld
    \/ HashPermute
    \/ HashReduce
    \/ HashEncode
    \/ Release

SpecRepeat == Init /\ [][NextRepeat]_vars

-----------------------------------------------------------------------------
(* The example's simulate_hash10 beside the jet: the caller hands the ten  *)
(* words of its array to hash_10_jet as a list and to simulate_hash10 as   *)
(* they are.  peer.input holds the array, peer.output what simulate_hash10 *)
(* returns.                                                                *)

\* simulate_hash10 with the capacity loop starting one word late
simulate_hash10_late(inp) ==
    LET sp == [k \in 1..STATE_SIZE |->
                  IF k <= RATE THEN ModPrime(inp[k])
                  ELSE IF k = RATE + 1 THEN U64(0)
                  ELSE ModPrime(U64(1))]
        p  == permute(sp)
    IN  [i \in 1..DIGEST_LENGTH |-> ModPrime(p[i])]

\* input[i] % 4294967291 into the rate, 1 % 4294967291 into the capacity,
\* permute, sponge[i] % 4294967291 out
simulate_hash10(inp) ==
    LET sp == [k \in 1..STATE_SIZE |->
                  IF k <= RATE THEN ModPrime(inp[k]) ELSE ModPrime(U64(1))]
        p  == permute(sp)
    IN  [i \in 1..DIGEST_LENGTH |-> ModPrime(p[i])]

\* the array a list of u64 atoms was built from
ArrayOf(a) == [i \in 1..Len(a.elems) |-> a.elems[i].w]

Simulate ==
    /\ pc = "done"
    /\ jet = "hash10"
    /\ Len(args.elems) = RATE
    /\ \A i \in 1..RATE : args.elems[i].k = "word"
    /\ peer.output = <<>>
    /\ peer' = [peer EXCEPT !.input = ArrayOf(args),
                            !.output = simulate_hash10(ArrayOf(args))]
    /\ UNCHANGED <<pc, jet, subject, args, locals, result, counters, lastFail>>

NextSimulate ==
    \/ \E a \in Inputs : Call("hash10", a)
    \/ HashSlot
    \/ HashDecode
    \/ HashRange
    \/ HashMontify
    \/ HashInit
    \/ HashWeld
    \/ HashPermute
    \/ HashReduce
    \/ HashEncode
    \/ Simulate

SpecSimulate == Init /\ [][NextSimulate]_vars

-----------------------------------------------------------------------------
(* The proof-capture harness (crates/nockchain/tests/                      *)
(* prove_block_fast_test.rs): extract_hoon_tuple on its own, and           *)
(* extract_stark_proof_data on an effects list of one effect.  subject     *)
(* holds the noun, args how the caller built it, result what the function  *)
(* returns.                                                                *)

\* the atom's value as a u64; an atom wider than 64 bits is cut to its low
\* 8 bytes, a pair is an error
extract_atom_as_u64(n) ==
    IF is_cell(n) THEN Err("Expected atom")
    ELSE Ok([j \in 1..4 |-> IF j <= Len(n.atom) THEN n.atom[j] ELSE 0])

\* for i in 0..expected_count over the nested pairs; ok is FALSE when the
\* loop returns the error "Expected cell at position i"
RECURSIVE tuple_loop(_, _, _, _)
tuple_loop(current, parts, i, expected_count) ==
    IF i >= expected_count THEN [ok |-> TRUE, parts |-> parts]
    ELSE IF is_cell(current)
    THEN IF i = expected_count - 1
         THEN [ok |-> TRUE, parts |-> Append(parts, current.head)]
         ELSE tuple_loop(current.tail, Append(parts, current.head), i + 1,
                         expected_count)
    ELSE IF i = expected_count - 1 /\ Len(parts) = expected_count - 1
         THEN [ok |-> TRUE, parts |-> Append(parts, current)]
         ELSE [ok |-> FALSE, parts |-> parts]

extract_hoon_tuple(tuple_noun, expected_count) ==
    LET l == tuple_loop(tuple_noun, <<>>, 0, expected_count)
    IN  IF ~l.ok THEN Err("Expected cell")
        ELSE IF Len(l.parts) # expected_count
             THEN Err("Tuple extraction failed")
        ELSE Ok(l.parts)

extract_first_list_item(list_noun) ==
    IF is_cell(list_noun) THEN Ok(list_noun.head)
    ELSE IF list_noun = D(0) THEN Err("Empty list")
    ELSE Err("Expected list")

verify_effect_tags(tag1, tag2) ==
    IF is_atom(tag1) /\ is_atom(tag2) THEN Ok("tags") ELSE Err("Effect tags")

extract_tip5_hash_atom(hash_noun) ==
    IF is_atom(hash_noun) THEN Ok(hash_noun.atom) ELSE Err("Expected atom")

extract_noun_digest(digest_noun) ==
    LET t == extract_hoon_tuple(digest_noun, DIGEST_LENGTH)
    IN  IF t.kind # "Ok" THEN t
        ELSE IF \E i \in 1..DIGEST_LENGTH : is_cell(t.val[i])
             THEN Err("Expected atom")
        ELSE Ok([i \in 1..DIGEST_LENGTH |-> extract_atom_as_u64(t.val[i]).val])

\* the lists of the proof are parsed item by item (see the list parsers
\* below); here the proofs carry empty lists, which both parsers accept
parse_empty_list(list_noun) ==
    IF list_noun = D(0) THEN Ok(<<>>) ELSE Err("Malformed list")

parse_proof_structure(proof_noun) ==
    LET t == extract_hoon_tuple(proof_noun, 4)
    IN  IF t.kind # "Ok" THEN t
        ELSE IF extract_atom_as_u64(t.val[1]).kind # "Ok"
             THEN extract_atom_as_u64(t.val[1])
        ELSE IF parse_empty_list(t.val[2]).kind # "Ok"
             THEN parse_empty_list(t.val[2])
        ELSE IF parse_empty_list(t.val[3]).kind # "Ok"
             THEN parse_empty_list(t.val[3])
        ELSE IF extract_atom_as_u64(t.val[4]).kind # "Ok"
             THEN extract_atom_as_u64(t.val[4])
        ELSE Ok([version |-> extract_atom_as_u64(t.val[1]).val,
                 objects |-> <<>>, hashes |-> <<>>,
                 read_index |-> extract_atom_as_u64(t.val[4]).val])

\* the nonce: the digest when the part is a 5-tuple of atoms, else the atom
\* padded with zeros, else five zeros
nonce_of(part) ==
    IF extract_noun_digest(part).kind = "Ok" THEN extract_noun_digest(part).val
    ELSE IF extract_atom_as_u64(part).kind = "Ok"
         THEN [i \in 1..DIGEST_LENGTH |->
                  IF i = 1 THEN extract_atom_as_u64(part).val ELSE U64(0)]
    ELSE [i \in 1..DIGEST_LENGTH |-> U64(0)]

extract_stark_proof_data(root_noun) ==
    LET e == extract_first_list_item(root_noun)
    IN  IF e.kind # "Ok" THEN e
        ELSE LET t == extract_hoon_tuple(e.val, 6)
             IN  IF t.kind # "Ok" THEN t
                 ELSE IF verify_effect_tags(t.val[1], t.val[2]).kind # "Ok"
                      THEN verify_effect_tags(t.val[1], t.val[2])
                 ELSE IF parse_proof_structure(t.val[3]).kind # "Ok"
                      THEN parse_proof_structure(t.val[3])
                 ELSE IF extract_tip5_hash_atom(t.val[4]).kind # "Ok"
                      THEN extract_tip5_hash_atom(t.val[4])
                 ELSE IF extract_noun_digest(t.val[5]).kind # "Ok"
                      THEN extract_noun_digest(t.val[5])
                 ELSE Ok([proof |-> parse_proof_structure(t.val[3]).val,
                          proof_hash |-> extract_tip5_hash_atom(t.val[4]).val,
                          block_commitment |-> extract_noun_digest(t.val[5]).val,
                          nonce |-> nonce_of(t.val[6])])

\* [a1 [a2 [... [a(n-1) an]]]]
RECURSIVE tuple_from(_, _)
tuple_from(parts, k) ==
    IF k = Len(parts) THEN parts[k]
    ELSE T(parts[k], tuple_from(parts, k + 1))

tuple_of(parts) == tuple_from(parts, 1)

MaxTuple == 6

\* what a component other than a small atom can be: a pair, a pair of
\* pairs, the atom 0, an atom of 2^64
Components == {T(D(7), D(8)), T(T(D(1), D(2)), D(3)), D(0), [atom |-> Big.w]}

Digests ==
    { tuple_of([i \in 1..DIGEST_LENGTH |-> D(i)]),
      tuple_of([i \in 1..DIGEST_LENGTH |-> D(0)]),
      tuple_of([i \in 1..DIGEST_LENGTH |-> IF i = 1 THEN D(9) ELSE D(0)]) }

TupleInputs ==
    \* n atoms but for one component, read as an n-tuple or as one longer
    { [kind |-> "tuple", n |-> c[1] + c[4],
       parts |-> [i \in 1..c[1] |-> IF i = c[2] THEN c[3] ELSE D(i)]] :
        c \in { q \in (2..MaxTuple) \X (1..MaxTuple) \X Components \X {0, 1} :
                  q[2] <= q[1] } }
    \cup { [kind |-> "tuple", n |-> n, parts |-> [i \in 1..n |-> D(i)]] :
             n \in 2..MaxTuple }
    \* [%command %pow prf dig block-commitment nonce]
    \cup { [kind |-> "effects", n |-> 6,
            parts |-> <<D(1), D(2), tuple_of(<<D(0), D(0), D(0), D(5)>>),
                        D(4), bc, nonce>>] :
             bc \in Digests, nonce \in Digests \cup {D(9), T(D(7), D(8))} }

InitTuple ==
    /\ pc = "t_start"
    /\ args \in TupleInputs
    /\ subject = IF args.kind = "effects" THEN T(tuple_of(args.parts), D(0))
                 ELSE tuple_of(args.parts)
    /\ jet = "none"
    /\ sample = D(0)
    /\ input = <<>>
    /\ montified_input = <<>>
    /\ sponge = <<>>
    /\ output = <<>>
    /\ result = NoResult
    /\ reads = 0
    /\ nMontify = 0
    /\ nPermute = 0
    /\ nAlloc = 0
    /\ lastFail = [cause |-> "None", val |-> "none"]
    /\ peer = IdleFrame

ExtractTuple ==
    /\ pc = "t_start"
    /\ args.kind = "tuple"
    /\ result' = extract_hoon_tuple(subject, args.n)
    /\ pc' = "t_done"
    /\ UNCHANGED <<jet, subject, args, locals, counters, lastFail, peer>>

ExtractProofData ==
    /\ pc = "t_start"
    /\ args.kind = "effects"
    /\ result' = extract_stark_proof_data(subject)
    /\ pc' = "t_done"
    /\ UNCHANGED <<jet, subject, args, locals, counters, lastFail, peer>>

NextTuple == ExtractTuple \/ ExtractProofData

SpecTuple == InitTuple /\ [][NextTuple]_vars

-----------------------------------------------------------------------------
(* The list loops of the harness: parse_proof_objects_list and             *)
(* parse_noun_digest_list (prove_block_fast_test.rs) and count_list_items  *)
(* (capture_real_stark_proof.rs), one action per iteration.  args says     *)
(* how the list was built: len items, the item at place bad (if any) one   *)
(* the item parser rejects, and the final tail, the atom 0 or the atom 1.  *)
(* jet names the function; reads is count, which is also the number of     *)
(* items current has moved past.                                           *)

SAFETY_LIMIT == 1000

\* how far past the limit the lists go
Over == 2

ListLengths == (0..2) \cup ((SAFETY_LIMIT - 1)..(SAFETY_LIMIT + Over))

ListFunctions == {"objects", "digests", "count"}

ListInputs ==
    { [len |-> n, term |-> t, bad |-> b] :
        n \in ListLengths, t \in {"zero", "one"}, b \in {0, 2} }

InitList ==
    /\ pc = "l_loop"
    /\ jet \in ListFunctions
    /\ args \in ListInputs
    /\ subject = D(0)
    /\ sample = D(0)
    /\ input = <<>>
    /\ montified_input = <<>>
    /\ sponge = <<>>
    /\ output = <<>>
    /\ result = NoResult
    /\ reads = 0
    /\ nMontify = 0
    /\ nPermute = 0
    /\ nAlloc = 0
    /\ lastFail = [cause |-> "None", val |-> "none"]
    /\ peer = IdleFrame

\* one iteration of the loop of parse_proof_objects_list or of
\* parse_noun_digest_list
ParseItem ==
    /\ pc = "l_loop"
    /\ jet \in {"objects", "digests"}
    /\ IF reads < args.len
       THEN \* current is a cell: parse the head, move to the tail
            IF args.bad = reads + 1
            THEN Return(Err("item")) /\ UNCHANGED reads
            ELSE /\ reads' = reads + 1
                 /\ IF reads + 1 = args.len /\ args.term = "zero"
                    THEN Return(Ok(reads + 1))
                    ELSE IF reads + 1 > SAFETY_LIMIT
                    THEN Return(Err("too long (>1000 items)"))
                    ELSE UNCHANGED <<pc, result>>
       ELSE \* current is an atom
            /\ UNCHANGED reads
            /\ IF args.term = "zero" THEN Return(Ok(reads))
               ELSE Return(Err("Malformed list"))
    /\ UNCHANGED <<jet, subject, args, locals, nMontify, nPermute, nAlloc,
                   lastFail, peer>>

\* one iteration of the loop of count_list_items
CountItem ==
    /\ pc = "l_loop"
    /\ jet = "count"
    /\ IF reads < args.len
       THEN /\ reads' = reads + 1
            /\ IF reads + 1 > SAFETY_LIMIT
               THEN Return(Err("too long (>1000 items)"))
               ELSE UNCHANGED <<pc, result>>
       ELSE UNCHANGED reads /\ Return(Ok(reads))
    /\ UNCHANGED <<jet, subject, args, locals, nMontify, nPermute, nAlloc,
                   lastFail, peer>>

NextList == ParseItem \/ CountItem

SpecList == InitList /\ [][NextList]_vars

-----------------------------------------------------------------------------
(* Properties *)

HasAxis6(a) == a.shape \in {"gate", "gate2"}

AllWords(a) == \A i \in 1..Len(a.elems) : a.elems[i].k = "word"

\* the subject carries at axis 6 a zero-terminated list of n u64 atoms
WellFormed(a, n) ==
    /\ HasAxis6(a)
    /\ Len(a.elems) = n
    /\ AllWords(a)
    /\ a.term = Word(U64(0))

WordsOf(a) == [i \in 1..Len(a.elems) |-> a.elems[i].w]

InField(w) == ~WordGE(w, TIP5_PRIME)

AllInField(a) == \A i \in 1..Len(a.elems) : InField(a.elems[i].w)

\* the noun is a chain of exactly k pairs with u64 atoms as heads, ended by 0
RECURSIVE IsChain(_, _)
IsChain(n, k) ==
    IF k = 0 THEN n = D(0)
    ELSE /\ is_cell(n)
         /\ is_atom(n.head)
         /\ Len(n.head.atom) <= 4
         /\ IsChain(n.tail, k - 1)

\* the noun after k tails
RECURSIVE TailN(_, _)
TailN(n, k) == IF k = 0 THEN n ELSE TailN(n.tail, k - 1)

\* C1: on a subject whose axis 6 is a zero-terminated list of 16 u64 atoms
\* (words >= P included) permutation_jet succeeds, and its result read back
\* element by element is permute of the same 16 words.
C1_Parity ==
    (jet = "permutation" /\ WellFormed(args, STATE_SIZE)) =>
        /\ pc # "aborted"
        /\ pc = "done" =>
             /\ result.kind = "Ok"
             /\ read_back(result.val, <<>>, STATE_SIZE) = permute(WordsOf(args))

C1_Witness ==
    /\ pc = "done"
    /\ jet = "permutation"
    /\ WellFormed(args, STATE_SIZE)
    /\ \A i \in 1..STATE_SIZE : WordsOf(args)[i] = MaxU64
    /\ result.kind = "Ok"

\* the state hash-10 is to hand to permute: the converted input, then
\* montify(1) six times
ExpectedState(a) ==
    [k \in 1..STATE_SIZE |->
        IF k <= RATE THEN montify(WordsOf(a)[k]) ELSE montify(U64(1))]

ExpectedDigest(a) ==
    LET p == permute(ExpectedState(a))
    IN  [i \in 1..DIGEST_LENGTH |-> mont_reduction(p[i])]

C3_RangeValidation ==
    (jet = "hash10" /\ WellFormed(args, RATE)) =>
        /\ ~AllInField(args) =>
             /\ pc \in {"slot", "decode", "range", "done"}
             /\ nMontify = 0 /\ nPermute = 0 /\ nAlloc = 0
             /\ pc = "done" => result.kind = "Err"
        /\ AllInField(args) =>
             /\ pc # "aborted"
             /\ pc = "done" => result.kind = "Ok"

C3_Witness ==
    /\ pc = "done"
    /\ jet = "hash10"
    /\ WellFormed(args, RATE)
    /\ \E i \in 1..RATE : WordsOf(args)[i] = TIP5_PRIME
    /\ \A i \in 1..RATE : WordsOf(args)[i] = TIP5_PRIME \/ InField(WordsOf(args)[i])
    /\ result.kind = "Err"
    /\ nMontify = 0

\* C4: no call of permutation_jet or hash_10_jet panics, whatever the subject.
C4_NeverPanics == pc # "aborted" /\ result.kind # "Panic"

\* a zero-terminated chain of u64 atoms at axis 6
AtomChain(a) == HasAxis6(a) /\ AllWords(a) /\ a.term = Word(U64(0))

\* C5: hoon_list_to_sponge returns an error value for every chain of u64
\* atoms whose length is not 16, shorter or longer.
C5_ArityError ==
    (/\ jet = "permutation"
     /\ AtomChain(args)
     /\ Len(args.elems) # STATE_SIZE
     /\ pc \notin {"slot", "decode"}) => result.kind = "Err"

\* hash_10_jet is past its decoder, which ran
Hash10Decoded ==
    /\ jet = "hash10"
    /\ pc \notin {"slot", "decode"}
    /\ ~(result.kind = "Err" /\ result.val = "slot")

\* C6: hoon_list_to_hash10_input returns Ok exactly for a chain of ten pairs
\* with u64 atoms as heads and the atom 0 as final tail, the i-th word being
\* the i-th head; any other noun gets an error; never more than ten cells
\* are read.
C6_ExactAcceptance ==
    Hash10Decoded =>
        /\ (input # <<>>) <=> IsChain(sample, RATE)
        /\ input # <<>> =>
             \A i \in 1..RATE : AtomNew(input[i]) = TailN(sample, i - 1).head
        /\ input = <<>> => (pc = "done" /\ result.kind = "Err")
        /\ reads <= RATE

C6_Witness ==
    /\ Hash10Decoded
    /\ AtomChain(args)
    /\ Len(args.elems) > RATE
    /\ input = <<>>
    /\ reads = RATE
    /\ result.kind = "Err"

Kinds == {"OutOfRange", "ArityMismatch", "ShapeMismatch"}

\* C7: the failure value tells the kind of error: two failed calls whose
\* inputs have defects of different kinds return different values.
C7_TypedFailures ==
    (/\ pc = "done"
     /\ result.kind = "Err"
     /\ Cause(jet, args) \in Kinds
     /\ lastFail.cause \in Kinds
     /\ lastFail.cause # Cause(jet, args)) => result.val # lastFail.val

\* C8: an array of 16 (of 10) u64 words encoded by vec_to_hoon_list and
\* decoded by hoon_list_to_sponge (hoon_list_to_hash10_input) comes back
\* as Ok of the same array; the first word is the outermost head and the
\* last word sits next to the terminator 0.
C8_RoundTrip ==
    pc = "m_decoded" =>
        /\ result.kind = "Ok"
        /\ result.val = output
        /\ sample.head = AtomNew(output[1])
        /\ TailN(sample, Len(output) - 1).head = AtomNew(output[Len(output)])
        /\ TailN(sample, Len(output)) = D(0)

C8_Witness ==
    /\ pc = "m_decoded"
    /\ jet = "permutation"
    /\ output[1] = U64(1)
    /\ output[STATE_SIZE] = MaxU64
    /\ result.kind = "Ok"

\* C9: mont_reduction(montify(x)) = x for every x in [0, P).
C9_MontgomeryRoundTrip == pc = "f_out" => output = input

C9_Witness ==
    /\ pc = "f_out"
    /\ input = <<PrimeMinus(1)>>
    /\ output = input

\* C10: montify is not the reduction x mod P on the field (some field
\* element is changed by it) and mont_reduction is not a second x mod P
\* (some word is mapped by it to something else than its residue); stated
\* of the states in which the helpers have run.
C10_RealMontgomery ==
    pc \in {"f_in", "f_out"} =>
        /\ \E x \in FieldSamples : montify(x) # x
        /\ \E y \in FieldSamples \cup WordSamples :
              mont_reduction(y) # ModPrime(y)

\* the digest of the comment at line 206, in 16-bit limbs: 941080798860502477,
\* 5295886365985465639, 14728839126885177993, 10358449902914633406,
\* 14220746792122877272
PinnedDigest ==
    << <<26061, 8453, 25600, 3343>>,
       <<58663, 20325, 50327, 18814>>,
       <<39561, 12253, 22822, 52327>>,
       <<65214, 9959, 39758, 36800>>,
       <<34136, 55618, 15836, 50522>> >>

\* C11: hash_10_jet on the list of ten zeros returns the pinned digest that
\* the Hoon implementation computes for (hash-10 (reap 10 0)).
C11_PinnedVector ==
    (/\ pc = "done"
     /\ jet = "hash10"
     /\ WellFormed(args, RATE)
     /\ \A i \in 1..RATE : WordsOf(args)[i] = U64(0)) =>
        /\ result.kind = "Ok"
        /\ read_back(result.val, <<>>, STATE_SIZE) = PinnedDigest

C13_ResultShape ==
    (pc = "done" /\ result.kind = "Ok") =>
        /\ is_cell(result.val)
        /\ jet = "hash10" => IsChain(result.val, DIGEST_LENGTH)
        /\ jet = "permutation" => IsChain(result.val, STATE_SIZE)

\* hash_10_jet has returned the digest of ten field elements as a list
C13_Witness ==
    /\ pc = "done"
    /\ jet = "hash10"
    /\ result.kind = "Ok"
    /\ WordsOf(args) = PlainWords("field", RATE)
    /\ is_cell(result.val)
    /\ TailN(result.val, DIGEST_LENGTH) = D(0)

\* the list of the unit tests: Arity(j) u64 atoms ended by 0, all below P for
\* hash_10_jet, placed as the tail of the subject [0 L]
TestSubject(j, a) ==
    /\ a.shape = "test"
    /\ Len(a.elems) = Arity(j)
    /\ AllWords(a)
    /\ a.term = Word(U64(0))
    /\ j = "hash10" => AllInField(a)

\* C14: called on the subject [0 L] that the unit tests build, L a
\* well-formed list of 16 atoms (permutation_jet) or of 10 atoms below P
\* (hash_10_jet), the jet returns Ok and the result is a pair.
C14_TestSubjectOk ==
    (pc = "done" /\ TestSubject(jet, args)) =>
        /\ result.kind = "Ok"
        /\ is_cell(result.val)

\* locating or decoding the sample fails for the call's input, by the
\* claim's list: no axis 6, an atom or a pair where the list or one of its
\* elements should be, a chain that is not Arity(j) long, a leaf wider than
\* 64 bits (the terminator being the atom 0)
DecodeFails(j, a) ==
    \/ ~HasAxis6(a)
    \/ /\ a.term = Word(U64(0))
       /\ \/ Len(a.elems) # Arity(j)
          \/ ~AllWords(a)

\* C15: when locating the sample at axis 6 or decoding it fails, the jet
\* returns an error, permute has not been invoked and no result list has
\* been built.
C15_NoSilentFallback ==
    (jet \in Jets /\ DecodeFails(jet, args) /\ pc \notin {"slot", "decode"}) =>
        /\ pc = "done"
        /\ result.kind = "Err"
        /\ nPermute = 0
        /\ nAlloc = 0

\* the number of pair nodes of a noun
RECURSIVE CellCount(_)
CellCount(n) ==
    IF is_cell(n) THEN 1 + CellCount(n.head) + CellCount(n.tail) ELSE 0

\* C17: throughout a call and after it, successful or failing, the subject is
\* the tree the caller built; the pair nodes of a returned list are exactly
\* the cells the call allocated, none of them the caller's, and a failing
\* call has allocated none.
C17_CallerTreeIntact ==
    (jet \in Jets /\ pc # "idle") =>
        /\ subject = SubjectOf(args)
        /\ (pc = "done" /\ result.kind = "Ok") =>
              CellCount(result.val) = nAlloc
        /\ (pc \in {"done", "aborted"} /\ result.kind # "Ok") => nAlloc = 0

\* permutation_jet has returned 16 new cells for a subject of 20
C17_Witness ==
    /\ pc = "done"
    /\ jet = "permutation"
    /\ args.shape = "gate2"
    /\ result.kind = "Ok"
    /\ nAlloc = STATE_SIZE
    /\ CellCount(result.val) = STATE_SIZE
    /\ CellCount(subject) = STATE_SIZE + 4
    /\ subject = SubjectOf(args)

\* C19: every call that has started eventually returns, Ok or Err; the
\* decoders read at most one element per pair of the chain, the hash-10
\* decoder at most 10 whatever the length of the chain.
C19_Terminates ==
    /\ (pc = "slot") ~> (pc = "done" /\ result.kind \in {"Ok", "Err"})
    /\ [](jet = "hash10" => reads <= RATE)
    /\ []((jet \in Jets /\ HasAxis6(args)) => reads <= Len(args.elems) + 1)

\* what a jet returns for a subject when it runs alone, start to end
jet_result(j, subj) ==
    LET s == slot6(subj)
    IN  IF s.kind # "Ok" THEN s
        ELSE IF j = "permutation"
        THEN LET d == hoon_list_to_sponge(s.val)
             IN  IF d.kind # "Ok" THEN [kind |-> d.kind, val |-> d.val]
                 ELSE Ok(vec_to_hoon_list(permute(d.val)))
        ELSE LET d == hoon_list_to_hash10_input(s.val)
             IN  IF d.kind # "Ok" THEN [kind |-> d.kind, val |-> d.val]
                 ELSE IF range_check(d.val).kind # "Ok" THEN range_check(d.val)
                 ELSE LET mi == [i \in 1..RATE |-> montify(d.val[i])]
                          sp == weld(init_tip5_state_fixed, mi)
                      IN  Ok(vec_to_hoon_list(digest(permute(sp))))

\* C18: with the steps of two calls interleaved in any order, a call that
\* has ended holds exactly the result the jet gives for its subject when run
\* alone, and a step of one call leaves the frame of the other as it was.
C18_ParallelCalls ==
    /\ [](pc \in {"done", "aborted"} => result = jet_result(jet, subject))
    /\ [][peer' = peer \/ peer' = Frame]_vars

\* both calls have run to the end, a hash and a permutation
C18_Witness ==
    /\ pc = "done"
    /\ peer.pc = "done"
    /\ jet = "hash10"
    /\ peer.jet = "permutation"
    /\ result.kind = "Ok"
    /\ peer.result.kind = "Ok"
    /\ peer.result = jet_result(peer.jet, peer.subject)

AllBelowPrime(st) == \A i \in 1..Len(st) : InField(st[i])

C21_ZeroTerminator ==
    (/\ jet \in Jets
     /\ HasAxis6(args)
     /\ Len(args.elems) = Arity(jet)
     /\ AllWords(args)
     /\ args.term \in {Word(U64(1)), Big}
     /\ pc \notin {"slot", "decode"}) =>
        /\ pc = "done"
        /\ result.kind = "Err"

\* C22: when an element of the chain is a pair, or an atom of 2^64 or more,
\* the decoder returns an error: the call ends with Err, whichever jet.
C22_LeafChecks ==
    (/\ jet \in Jets
     /\ HasAxis6(args)
     /\ \E i \in 1..Len(args.elems) : args.elems[i].k \in {"big", "cell"}
     /\ pc \notin {"slot", "decode"}) =>
        /\ pc = "done"
        /\ result.kind = "Err"

CAPACITY == STATE_SIZE - RATE

\* C23: the state a hash_10_jet call hands to permute has 16 words; the 10
\* rate words are the decoded input converted by montify, the 6 capacity
\* words are all montify(1), not zero, whatever the input and whatever calls
\* came before.
C23_DomainSeparation ==
    (jet = "hash10" /\ pc = "permute") =>
        /\ Len(sponge) = STATE_SIZE
        /\ RATE + CAPACITY = STATE_SIZE
        /\ RATE = 10 /\ CAPACITY = 6
        /\ \A k \in 1..RATE : sponge[k] = montify(input[k])
        /\ \A k \in (RATE + 1)..STATE_SIZE :
              sponge[k] = montify(U64(1)) /\ sponge[k] # U64(0)

\* a call about to permute, after an earlier call that failed
C23_Witness ==
    /\ jet = "hash10"
    /\ pc = "permute"
    /\ lastFail.cause = "OutOfRange"
    /\ input = PlainWords("field", RATE)
    /\ sponge[RATE] = montify(PrimeMinus(RATE))
    /\ sponge[STATE_SIZE] = montify(U64(1))

\* C24: on a well-formed list of 16 u64 atoms, words of P and above
\* included, permutation_jet does not fail, converts nothing and hands
\* permute the decoded words as they are; when it does fail, the sample is
\* missing or not a list, the chain is not 16 long, or a leaf is not a u64.
C24_NoRangeCheck ==
    /\ (jet = "permutation" /\ WellFormed(args, STATE_SIZE)) =>
          /\ pc \in {"done", "aborted"} => result.kind = "Ok"
          /\ pc = "permute" => sponge = WordsOf(args)
          /\ nMontify = 0
    /\ (jet = "permutation" /\ pc \in {"done", "aborted"}
        /\ result.kind # "Ok") =>
          \/ ~HasAxis6(args)
          \/ Len(args.elems) # STATE_SIZE
          \/ ~AllWords(args)
          \/ args.term = Pair

\* permute is about to get sixteen words of 2^64 - 1
C24_Witness ==
    /\ jet = "permutation"
    /\ pc = "permute"
    /\ WellFormed(args, STATE_SIZE)
    /\ sponge = PlainWords("max", STATE_SIZE)
    /\ nMontify = 0

Ended == {"done", "aborted"}

\* C25: two calls of one jet on subjects with the same subtree at axis 6 end
\* with equal results, whatever else the subjects hold, and a call on a
\* subject without an axis 6 ends with an error.
C25_SampleOnly ==
    /\ (/\ pc \in Ended
        /\ peer.pc \in Ended
        /\ jet = peer.jet
        /\ slot6(subject) = slot6(peer.subject)) => result = peer.result
    /\ (pc \in Ended /\ slot6(subject).kind # "Ok") =>
          pc = "done" /\ result.kind = "Err"

\* the same list in two different subjects, both calls ended
C25_Witness ==
    /\ pc = "done"
    /\ peer.pc = "done"
    /\ jet = "permutation"
    /\ peer.jet = "permutation"
    /\ args.shape = "gate"
    /\ peer.args.shape = "gate2"
    /\ subject # peer.subject
    /\ slot6(subject) = slot6(peer.subject)
    /\ result.kind = "Ok"
    /\ result = peer.result

\* C26: whatever calls came before on the context and whatever they left
\* behind, a call that has ended holds the result the jet gives for its
\* subject on a fresh context; a hash_10_jet call on a valid subject
\* succeeds every time, with the same digest.
C26_NoStateAcrossCalls ==
    pc \in Ended =>
        /\ result = jet_result(jet, subject)
        /\ (jet = "hash10" /\ WellFormed(args, RATE) /\ AllInField(args)) =>
              /\ result.kind = "Ok"
              /\ read_back(result.val, <<>>, STATE_SIZE) = ExpectedDigest(args)

\* permutation_jet has returned on a context where an earlier hash_10_jet
\* call left its converted input and its digest
C26_Witness ==
    /\ pc = "done"
    /\ jet = "permutation"
    /\ result.kind = "Ok"
    /\ Len(montified_input) = RATE
    /\ Len(output) = DIGEST_LENGTH
    /\ result = jet_result(jet, subject)

\* C27: for ten words all below P, the five words simulate_hash10 returns
\* are, in order, the five elements of the list hash_10_jet returns for a
\* subject that carries the ten words as its sample.
C27_SimulateAgrees ==
    (/\ pc = "done"
     /\ jet = "hash10"
     /\ WellFormed(args, RATE)
     /\ AllInField(args)
     /\ peer.output # <<>>) =>
        /\ peer.input = WordsOf(args)
        /\ result.kind = "Ok"
        /\ read_back(result.val, <<>>, STATE_SIZE) = peer.output

\* both have run on the ten words P - 1 .. P - 10
C27_Witness ==
    /\ pc = "done"
    /\ jet = "hash10"
    /\ WellFormed(args, RATE)
    /\ peer.input = PlainWords("field", RATE)
    /\ Len(peer.output) = DIGEST_LENGTH
    /\ result.kind = "Ok"
    /\ read_back(result.val, <<>>, STATE_SIZE) = peer.output

\* C28: extract_hoon_tuple(t, n) on the n-tuple [a1 [a2 [... an]]] returns
\* a1 .. an in order, an being the whole remaining tail also when it is a
\* pair; extract_stark_proof_data on the 6-part effect with a 5-tuple of
\* atoms as nonce returns the nonce's five words.
C28_TupleExtraction ==
    /\ (pc = "t_done" /\ args.kind = "tuple" /\ Len(args.parts) = args.n) =>
          result = Ok(args.parts)
    /\ (pc = "t_done" /\ args.kind = "effects" /\ args.parts[6] \in Digests) =>
          /\ result.kind = "Ok"
          /\ result.val.nonce =
                [i \in 1..DIGEST_LENGTH |->
                    extract_atom_as_u64(
                        IF i < DIGEST_LENGTH
                        THEN TailN(args.parts[6], i - 1).head
                        ELSE TailN(args.parts[6], i - 1)).val]

\* C29: on a zero-terminated list of well-formed items the two parsers and
\* count_list_items return the error 'too long (>1000 items)' when the list
\* has more than 1000 items and accept it when it has at most 1000.
C29_LengthLimit ==
    (pc = "done" /\ jet \in ListFunctions /\ args.term = "zero"
     /\ (args.bad = 0 \/ jet = "count")) =>
        /\ args.len > SAFETY_LIMIT => result = Err("too long (>1000 items)")
        /\ args.len <= SAFETY_LIMIT => result = Ok(args.len)

====
